---- MODULE Spec2Model ----
(***************************************************************************)
(* A model of lib/streamlit/config_util.py (server_option_changed,         *)
(* generate_config, show_config) and of the e2e script                     *)
(* e2e/scripts/st_radio.py.  Text is modelled by TLA+ strings, character   *)
(* by character; a Python dict is modelled by the sequence of its items in *)
(* iteration order.  A process makes one call of generate_config or        *)
(* show_config, so fs and stdout hold all that the call wrote and printed. *)
(***************************************************************************)
EXTENDS Integers, Sequences, FiniteSets, TLC

VARIABLES
    section_descriptions, \* generate_config's first argument: the section names, in dict order
    config_options,       \* generate_config's second argument: the ConfigOptions, in dict order
    call,                 \* the call the process made: [fn, save_to_file] (fn = "none": not yet)
    ret,                  \* the list generate_config returned to it
    fs,                   \* the writes made through streamlit_write: [name, project, content]
    stdout,               \* what click.echo printed
    old_options,          \* server_option_changed's first argument: [key, value] items
    new_options,          \* server_option_changed's second argument
    result,               \* what server_option_changed returned or raised, per order of the arguments
    is_running_with_streamlit, \* st._is_running_with_streamlit
    session_state,        \* st.session_state of the script's session
    widgets,              \* the index selected in the radios 1, 2 and 5
    written,              \* what the last script run wrote with st.write
    runs,                 \* the number of script runs of the session
    fired                 \* how often the on_change callback of radio 5 was called

vars == <<section_descriptions, config_options, call, ret, fs, stdout,
          old_options, new_options, result,
          is_running_with_streamlit, session_state, widgets, written, runs, fired>>

config_vars  == <<section_descriptions, config_options, call, ret, fs, stdout>>
changed_vars == <<old_options, new_options, result>>
radio_vars   == <<is_running_with_streamlit, session_state, widgets, written, runs, fired>>

----------------------------------------------------------------------------
(* Python's str and list operations used by config_util.py *)

Range(s) == {s[i] : i \in DOMAIN s}

\* str.isspace() characters that can occur in the texts
Whitespace == {" ", "\n", "\t", "\r", "\f"}

Char(s, i) == SubSeq(s, i, i)

\* s[n:]
DropFirst(s, n) == IF n >= Len(s) THEN "" ELSE SubSeq(s, n + 1, Len(s))

\* s.startswith(p)
StartsWith(s, p) == Len(s) >= Len(p) /\ SubSeq(s, 1, Len(p)) = p

\* s.endswith(p)
EndsWith(s, p) == Len(s) >= Len(p) /\ SubSeq(s, Len(s) - Len(p) + 1, Len(s)) = p

\* s.strip(): from the first to the last character that is no whitespace
Strip(s) ==
    LET keep == {i \in 1..Len(s) : Char(s, i) \notin Whitespace}
    IN  IF keep = {} THEN ""
        ELSE SubSeq(s, CHOOSE i \in keep : \A j \in keep : i <= j,
                       CHOOSE i \in keep : \A j \in keep : i >= j)

\* s.split(): the maximal runs of non-whitespace characters, left to right
SplitWhitespace(s) ==
    LET ws     == {i \in 1..Len(s) : Char(s, i) \in Whitespace}
        starts == {i \in 1..Len(s) : i \notin ws /\ (i = 1 \/ (i - 1) \in ws)}
        ends   == {i \in 1..Len(s) : i \notin ws /\ (i = Len(s) \/ (i + 1) \in ws)}
        EndOf(i) == CHOOSE e \in ends : e >= i /\ \A k \in ends : k >= i => e <= k
        rank   == [i \in starts |-> Cardinality({j \in starts : j < i}) + 1]
    IN  [k \in 1..Cardinality(starts) |->
            LET i == CHOOSE j \in starts : rank[j] = k IN SubSeq(s, i, EndOf(i))]

\* s.split(sep), sep not empty: cut at the leftmost occurrence, then split the rest
RECURSIVE Split(_, _)
Split(s, sep) ==
    LET IsHit(i) == SubSeq(s, i, i + Len(sep) - 1) = sep
        last == Len(s) - Len(sep) + 1
    IN  IF \A i \in 1..last : ~IsHit(i) THEN <<s>>
        ELSE LET h == CHOOSE i \in 1..last : IsHit(i) /\ \A j \in 1..(i - 1) : ~IsHit(j)
             IN  <<SubSeq(s, 1, h - 1)>> \o Split(DropFirst(s, h + Len(sep) - 1), sep)

\* sep.join(parts)
RECURSIVE Join(_, _)
Join(parts, sep) ==
    IF parts = <<>> THEN ""
    ELSE IF Len(parts) = 1 THEN parts[1]
         ELSE parts[1] \o sep \o Join(Tail(parts), sep)

\* _clean(txt): replace all whitespace with a single space
_clean(txt) == Strip(Join(SplitWhitespace(txt), " "))

\* _clean_paragraphs(txt)
_clean_paragraphs(txt) ==
    LET paragraphs == Split(txt, "\n\n")
    IN  [i \in DOMAIN paragraphs |-> _clean(paragraphs[i])]

----------------------------------------------------------------------------
(* Option values and toml.dumps *)

None     == [t |-> "none", i |-> 0, s |-> "",  b |-> FALSE]
IntV(n)  == [t |-> "int",  i |-> n, s |-> "",  b |-> FALSE]
StrV(x)  == [t |-> "str",  i |-> 0, s |-> x,   b |-> FALSE]
BoolV(x) == [t |-> "bool", i |-> 0, s |-> "",  b |-> x]

Digits == <<"0", "1", "2", "3", "4", "5", "6", "7", "8", "9">>

\* str(n) of an int n >= 0
RECURSIVE IntStr(_)
IntStr(n) == IF n < 10 THEN Digits[n + 1] ELSE IntStr(n \div 10) \o Digits[(n % 10) + 1]

\* toml's rendering of a scalar value (the strings of the model need no escape)
dump_value(v) ==
    CASE v.t = "int"  -> IntStr(v.i)
      [] v.t = "bool" -> (IF v.b THEN "true" ELSE "false")
      [] v.t = "str"  -> "\"" \o v.s \o "\""

\* toml.dumps({key: v}): a None value is left out
toml_dumps(key, v) ==
    IF v.t = "none" THEN "" ELSE key \o " = " \o dump_value(v) \o "\n"

----------------------------------------------------------------------------
(* click.style and the append helpers of generate_config *)

ESC == ""

\* click's colour codes of the two colours used
ansi_color(fg) == IF fg = "green" THEN "32" ELSE "33"

\* click.style(text, fg=fg, bold=bold) with reset=True; fg = "" and bold = FALSE: not given
click_style(text, fg, bold) ==
    (IF fg # "" THEN ESC \o "[" \o ansi_color(fg) \o "m" ELSE "")
    \o (IF bold THEN ESC \o "[1m" ELSE "")
    \o text
    \o ESC \o "[0m"

append_desc(out, save_to_file, text) ==
    IF save_to_file THEN Append(out, text)
    ELSE Append(out, click_style(text, "", TRUE))

\* append_comment without its file-mode branch
append_comment_styled(out, save_to_file, text) ==
    Append(out, click_style(text, "", FALSE))

append_comment(out, save_to_file, text) ==
    IF save_to_file THEN Append(out, text)
    ELSE Append(out, click_style(text, "", FALSE))

append_section(out, save_to_file, text) ==
    IF save_to_file THEN Append(out, text)
    ELSE Append(out, click_style(text, "green", TRUE))

append_setting(out, save_to_file, text) ==
    IF save_to_file THEN Append(out, text)
    ELSE Append(out, click_style(text, "green", FALSE))

append_newline(out) == Append(out, "")

----------------------------------------------------------------------------
(* generate_config *)

SKIP_SECTIONS == {"_test"}

DEFAULT_DEFINITION == "<default>"

\* the text generate_config starts with
header_text ==
    "\n        # Below are all the sections and options you can have in\n        ~/.streamlit/config.toml.\n    "

\* out.append(_clean(...)): the first line of every result
header == _clean(header_text)

\* the description paragraphs: the first one bold, the others plain
RECURSIVE append_description(_, _, _, _)
append_description(out, save_to_file, paragraphs, i) ==
    IF i > Len(paragraphs) THEN out
    ELSE append_description(
            IF i = 1 THEN append_desc(out, save_to_file, "# " \o paragraphs[i])
            ELSE append_comment(out, save_to_file, "# " \o paragraphs[i]),
            save_to_file, paragraphs, i + 1)

\* append_default with a line in its else branch too
append_default_always(out, save_to_file, option) ==
    LET toml_default == Strip(DropFirst(toml_dumps("default", option.default_val), 10))
    IN  IF Len(toml_default) > 0
        THEN append_comment(out, save_to_file, "# Default: " \o toml_default)
        ELSE append_comment(out, save_to_file, "# Default: (unset)")

\* the "# Default:" line, when toml renders the default value to some text
append_default(out, save_to_file, option) ==
    LET toml_default == Strip(DropFirst(toml_dumps("default", option.default_val), 10))
    IN  IF Len(toml_default) > 0
        THEN append_comment(out, save_to_file, "# Default: " \o toml_default)
        ELSE out

\* append_deprecation without the test of option.deprecated
append_deprecation_unconditional(out, save_to_file, option) ==
    LET o1 == append_comment(out, save_to_file, "#")
        o2 == IF ~save_to_file
              THEN append_comment(o1, save_to_file,
                       "# " \o click_style("DEPRECATED.", "yellow", FALSE))
              ELSE append_comment(o1, save_to_file, "# DEPRECATED.")
        o3 == append_comment(o2, save_to_file,
                  "# " \o Join(_clean_paragraphs(option.deprecation_text), "\n"))
        o4 == append_comment(o3, save_to_file,
                  "# This option will be removed on or after "
                  \o option.expiration_date \o ".")
    IN  append_comment(o4, save_to_file, "#")

\* the deprecation block of a deprecated option
append_deprecation(out, save_to_file, option) ==
    IF option.deprecated
    THEN LET o1 == append_comment(out, save_to_file, "#")
             o2 == IF ~save_to_file
                   THEN append_comment(o1, save_to_file,
                            "# " \o click_style("DEPRECATED.", "yellow", FALSE))
                   ELSE append_comment(o1, save_to_file, "# DEPRECATED.")
             o3 == append_comment(o2, save_to_file,
                       "# " \o Join(_clean_paragraphs(option.deprecation_text), "\n"))
             o4 == append_comment(o3, save_to_file,
                       "# This option will be removed on or after "
                       \o option.expiration_date \o ".")
         IN  append_comment(o4, save_to_file, "#")
    ELSE out

\* append_value commenting out every setting that toml renders
append_value_commented(out, save_to_file, option) ==
    LET key == Split(option.key, ".")[2]
        option_is_manually_set == option.where_defined # DEFAULT_DEFINITION
        o1 == IF option_is_manually_set
              THEN append_comment(out, save_to_file,
                       "# The value below was set in " \o option.where_defined)
              ELSE out
        t1 == toml_dumps(key, option.value)
        t2 == IF Len(t1) > 0 THEN "#" \o t1 ELSE t1
        t3 == IF Len(t2) = 0 THEN "#" \o key \o " =\n" ELSE t2
    IN  append_setting(o1, save_to_file, t3)

\* the provenance comment and the setting line
append_value(out, save_to_file, option) ==
    LET key == Split(option.key, ".")[2]
        option_is_manually_set == option.where_defined # DEFAULT_DEFINITION
        o1 == IF option_is_manually_set
              THEN append_comment(out, save_to_file,
                       "# The value below was set in " \o option.where_defined)
              ELSE out
        t1 == toml_dumps(key, option.value)
        t2 == IF Len(t1) > 0 /\ ~option_is_manually_set THEN "#" \o t1 ELSE t1
        t3 == IF Len(t2) = 0 THEN "#" \o key \o " =\n" ELSE t2
    IN  append_setting(o1, save_to_file, t3)

\* the body of the inner loop for an option that is not skipped
append_option(out, save_to_file, option) ==
    append_value(
        append_deprecation(
            append_default(
                append_description(out, save_to_file,
                                   _clean_paragraphs(option.description), 1),
                save_to_file, option),
            save_to_file, option),
        save_to_file, option)

\* option_skipped without the test of the visibility
option_skipped_shows_hidden(option, section) ==
    \/ option.section # section
    \/ option.expired

\* the three `continue`s of the inner loop
option_skipped(option, section) ==
    \/ option.section # section
    \/ option.visibility = "hidden"
    \/ option.expired

\* for key, option in config_options.items()
RECURSIVE options_loop(_, _, _, _, _)
options_loop(out, save_to_file, section, options, k) ==
    IF k > Len(options) THEN out
    ELSE options_loop(
            IF option_skipped(options[k], section) THEN out
            ELSE append_option(out, save_to_file, options[k]),
            save_to_file, section, options, k + 1)

\* section_header without the empty line before the header
section_header_no_newline(out, save_to_file, section) ==
    append_newline(append_section(out, save_to_file, "[" \o section \o "]"))

\* the header of a section that is not skipped
section_header(out, save_to_file, section) ==
    append_newline(append_section(append_newline(out), save_to_file,
                                  "[" \o section \o "]"))

\* for section, section_description in section_descriptions.items()
RECURSIVE sections_loop(_, _, _, _, _)
sections_loop(out, save_to_file, sections, options, j) ==
    IF j > Len(sections) THEN out
    ELSE sections_loop(
            IF sections[j] \in SKIP_SECTIONS THEN out
            ELSE options_loop(section_header(out, save_to_file, sections[j]),
                              save_to_file, sections[j], options, 1),
            save_to_file, sections, options, j + 1)

\* the list generate_config returns
generate_config_out(sections, options, save_to_file) ==
    sections_loop(<<header>>, save_to_file, sections, options, 1)

\* write_config without the test of save_to_file
write_config_always(out, save_to_file) ==
    <<[name |-> "config.toml", project |-> TRUE, content |-> Join(out, "\n")]>>

\* with streamlit_write("config.toml", project=True) as f: f.write("\n".join(out))
write_config(out, save_to_file) ==
    IF save_to_file
    THEN <<[name |-> "config.toml", project |-> TRUE, content |-> Join(out, "\n")]>>
    ELSE <<>>

\* click.echo(f"Wrote config file to {f.name}"), f.name the project's config file
echo_written(save_to_file) ==
    IF save_to_file THEN <<"Wrote config file to .streamlit/config.toml">> ELSE <<>>

NoCall == [fn |-> "none", save_to_file |-> FALSE]

\* generate_config(section_descriptions, config_options, save_to_file), called by the process
GenerateConfig(save_to_file) ==
    LET out == generate_config_out(section_descriptions, config_options, save_to_file)
    IN  /\ call = NoCall
        /\ call' = [fn |-> "generate_config", save_to_file |-> save_to_file]
        /\ ret' = out
        /\ fs' = fs \o write_config(out, save_to_file)
        /\ stdout' = stdout \o echo_written(save_to_file)
        /\ UNCHANGED <<section_descriptions, config_options>>

\* show_config(section_descriptions, config_options): returns None, prints the lines
ShowConfig ==
    LET out == generate_config_out(section_descriptions, config_options, FALSE)
    IN  /\ call = NoCall
        /\ call' = [fn |-> "show_config", save_to_file |-> FALSE]
        /\ ret' = <<>>
        /\ fs' = fs \o write_config(out, FALSE)
        /\ stdout' = (stdout \o echo_written(FALSE)) \o <<Join(out, "\n")>>
        /\ UNCHANGED <<section_descriptions, config_options>>

----------------------------------------------------------------------------
(* The inputs of generate_config: the registry of options and the sections *)

MaxOptions == 2

\* the sequences of at most n elements of S, no element twice
SeqsNoRepeat(S, n) ==
    UNION {{q \in [1..k -> S] : \A a, b \in 1..k : a # b => q[a] # q[b]} : k \in 0..n}

\* section_descriptions: sections in registry order, in another order with the
\* internal-test section, and with sections left out
SectionLists == {<<"server", "browser">>, <<"browser", "_test", "server">>, <<"_test", "browser">>}

\* what the registry fixes for an option: key, description, default, and a value to set
OptionTemplates == {
    [section |-> "server", name |-> "port",
     description |-> "The port\n        to use.",
     default_val |-> IntV(8501), sample |-> IntV(80)],
    [section |-> "server", name |-> "address",
     description |-> "Address to use.\n\n        Unset: any.",
     default_val |-> None, sample |-> StrV("localhost")],
    [section |-> "browser", name |-> "gatherUsageStats",
     description |-> "Send statistics.",
     default_val |-> BoolV(TRUE), sample |-> BoolV(FALSE)],
    [section |-> "_test", name |-> "tomlTest",
     description |-> "For tests.",
     default_val |-> StrV("a"), sample |-> StrV("b")] }

ConfigOption(t, visibility, deprecated, expired, where_defined, value) ==
    [key |-> t.section \o "." \o t.name,
     section |-> t.section,
     description |-> t.description,
     default_val |-> t.default_val,
     value |-> value,
     visibility |-> visibility,
     deprecated |-> deprecated,
     deprecation_text |-> "Use\n        another.\n\n        Soon.",
     expiration_date |-> "2022-01-01",
     where_defined |-> where_defined,
     expired |-> expired]

\* an option as registered: visible, not deprecated, at its default
PlainOption(t) == ConfigOption(t, "visible", FALSE, FALSE, DEFAULT_DEFINITION, t.default_val)

\* the states an option can be in: hidden or expired (then skipped), or shown, with every
\* combination of deprecated, set by the user, and a value of None
OptionVariants(t) ==
    {ConfigOption(t, "hidden", FALSE, FALSE, DEFAULT_DEFINITION, t.default_val),
     ConfigOption(t, "visible", TRUE, TRUE, DEFAULT_DEFINITION, t.default_val),
     ConfigOption(t, "visible", FALSE, TRUE, DEFAULT_DEFINITION, t.default_val)}
    \cup {ConfigOption(t, "visible", dep, FALSE, wd, val) :
            dep \in BOOLEAN,
            wd \in {DEFAULT_DEFINITION, "environment variable"},
            val \in {None, t.sample}}
    \cup {PlainOption(t)}

\* the registries: at most MaxOptions options of distinct keys in any order, one of them in
\* any state and the others as registered
Registries ==
    {<<>>} \cup
    UNION {UNION {{[i \in DOMAIN q |-> IF i = f THEN v ELSE PlainOption(q[i])] :
                        v \in OptionVariants(q[f])} : f \in DOMAIN q}
             : q \in SeqsNoRepeat(OptionTemplates, MaxOptions)}

ConfigInit ==
    /\ section_descriptions \in SectionLists
    /\ config_options \in Registries
    /\ call = NoCall
    /\ ret = <<>>
    /\ fs = <<>>
    /\ stdout = <<>>

ConfigIdle ==
    /\ section_descriptions = <<>> /\ config_options = <<>>
    /\ call = NoCall /\ ret = <<>> /\ fs = <<>> /\ stdout = <<>>

ChangedIdle == old_options = <<>> /\ new_options = <<>> /\ result = <<>>

RadioIdle ==
    /\ is_running_with_streamlit = FALSE /\ session_state = <<>> /\ widgets = <<>>
    /\ written = <<>> /\ runs = 0 /\ fired = 0

Init == ConfigInit /\ ChangedIdle /\ RadioIdle

Next ==
    \/ \E save_to_file \in BOOLEAN :
        GenerateConfig(save_to_file) /\ UNCHANGED <<changed_vars, radio_vars>>
    \/ ShowConfig /\ UNCHANGED <<changed_vars, radio_vars>>

Spec == Init /\ [][Next]_vars

----------------------------------------------------------------------------
(* Reading a returned list: what the claims say about its lines *)

\* the elements of a set of integers in increasing order
SortedSeq(S) ==
    [k \in 1..Cardinality(S) |-> CHOOSE i \in S : Cardinality({j \in S : j < i}) = k - 1]

Letters ==
    {"a", "b", "c", "d", "e", "f", "g", "h", "i", "j", "k", "l", "m",
     "n", "o", "p", "q", "r", "s", "t", "u", "v", "w", "x", "y", "z",
     "A", "B", "C", "D", "E", "F", "G", "H", "I", "J", "K", "L", "M",
     "N", "O", "P", "Q", "R", "S", "T", "U", "V", "W", "X", "Y", "Z"}

AnsiParams == {";", "?", "0", "1", "2", "3", "4", "5", "6", "7", "8", "9"}

\* the text without its terminal styling: every ESC [ parameters letter removed
Unstyle(s) ==
    LET n == Len(s)
        escs == {i \in 1..n : Char(s, i) = ESC}
        IsEnd(i, j) == /\ Char(s, j) \in Letters
                       /\ \A k \in (i + 2)..(j - 1) : Char(s, k) \in AnsiParams
        starts == {i \in escs : /\ i + 2 <= n
                                /\ Char(s, i + 1) = "["
                                /\ \E j \in (i + 2)..n : IsEnd(i, j)}
        EndOf(i) == CHOOSE j \in (i + 2)..n : IsEnd(i, j)
        st == SortedSeq(starts)
        m == Len(st)
        piece(k) == SubSeq(s, IF k = 1 THEN 1 ELSE EndOf(st[k - 1]) + 1,
                              IF k = m + 1 THEN n ELSE st[k] - 1)
    IN  IF escs = {} THEN s ELSE Join([k \in 1..(m + 1) |-> piece(k)], "")

Plain(lines) == [i \in DOMAIN lines |-> Unstyle(lines[i])]

IsSettingLine(l) == EndsWith(l, "\n")
IsHeaderLine(l)  == StartsWith(l, "[") /\ EndsWith(l, "]")
IsCommentLine(l) == StartsWith(l, "#") /\ ~IsSettingLine(l)

\* the key a setting line assigns, active or commented out
SettingKey(l) == Split(IF StartsWith(l, "#") THEN DropFirst(l, 1) ELSE l, " =")[1]

Settings(plain) == {j \in DOMAIN plain : IsSettingLine(plain[j])}
Headers(plain)  == {j \in DOMAIN plain : IsHeaderLine(plain[j])}

\* the section whose header is the last one before line j
SectionAt(plain, j) ==
    LET h == CHOOSE i \in Headers(plain) :
                 i < j /\ \A k \in Headers(plain) : k < j => k <= i
    IN  SubSeq(plain[h], 2, Len(plain[h]) - 1)

\* the full key of the option whose setting line is line j
OptionKeyAt(plain, j) == SectionAt(plain, j) \o "." \o SettingKey(plain[j])

\* the lines of the option whose setting line is line j: from after the previous setting
\* or empty line, up to line j
Block(plain, j) ==
    LET stops == {i \in 1..(j - 1) : plain[i] = "" \/ IsSettingLine(plain[i])}
        last  == CHOOSE i \in stops : \A k \in stops : k <= i
    IN  SubSeq(plain, last + 1, j)

OptionOf(key) == CHOOSE k \in DOMAIN config_options : config_options[k].key = key

\* what the specification says is shown
ShouldEmit(o) ==
    /\ o.visibility # "hidden"
    /\ ~o.expired
    /\ o.section \in Range(section_descriptions) \ {"_test"}

Returned == call.fn = "generate_config"

IsNone(v) == v.t = "none"

----------------------------------------------------------------------------
(* Claims about generate_config and show_config *)

\* C2: an option has lines in the returned list iff it is not hidden, not expired and its
\* section is a key of section_descriptions other than "_test"; each such option has
\* exactly one setting line, every line belongs to some shown option, and no header
\* "[_test]" is emitted.
C2_ShownOptions ==
    Returned =>
        LET plain == Plain(ret)
            settings == Settings(plain)
        IN  /\ \A k \in DOMAIN config_options :
                  Cardinality({j \in settings :
                                  OptionKeyAt(plain, j) = config_options[k].key})
                    = IF ShouldEmit(config_options[k]) THEN 1 ELSE 0
            /\ \A j \in settings :
                  /\ \E k \in DOMAIN config_options :
                        config_options[k].key = OptionKeyAt(plain, j)
                  /\ Len(Block(plain, j)) >= 2
                  /\ \A i \in 1..(Len(Block(plain, j)) - 1) :
                        IsCommentLine(Block(plain, j)[i])
            /\ \A i \in 2..Len(plain) :
                  IsCommentLine(plain[i]) =>
                      i < Len(plain) /\ plain[i + 1] # "" /\ ~IsHeaderLine(plain[i + 1])
            /\ \A i \in DOMAIN plain : plain[i] # "[_test]"

C2_Witness ==
    /\ Returned
    /\ "_test" \in Range(section_descriptions)
    /\ \E k \in DOMAIN config_options : ShouldEmit(config_options[k])
    /\ \E k \in DOMAIN config_options : config_options[k].section = "_test"

\* C3: the config file is written iff save_to_file: generate_config(save_to_file=True)
\* makes exactly one write, to the project's config.toml, of the returned lines joined by
\* newlines; generate_config(save_to_file=False) and show_config write no file, and
\* show_config only prints the lines.
C3_WritesIffSaveToFile ==
    /\ (call.fn = "generate_config" /\ call.save_to_file) =>
          /\ Len(fs) = 1
          /\ fs[1].name = "config.toml" /\ fs[1].project
          /\ fs[1].content = Join(ret, "\n")
          /\ Len(ret) >= 1
    /\ (call.fn = "generate_config" /\ ~call.save_to_file) => fs = <<>> /\ stdout = <<>>
    /\ call.fn = "show_config" => fs = <<>> /\ Len(stdout) = 1
    /\ call.fn = "none" => fs = <<>> /\ stdout = <<>>

C3_Witness ==
    /\ call.fn = "generate_config" /\ call.save_to_file
    /\ Len(fs) = 1
    /\ \E k \in DOMAIN config_options : ShouldEmit(config_options[k])

\* C4: a shown option has the deprecation block (the "DEPRECATED." comment, the
\* deprecation text, the notice with its expiration date) iff it is deprecated; the block
\* comes after the description lines and before the setting line.
C4_DeprecationBlock ==
    Returned =>
        LET plain == Plain(ret)
        IN  \A j \in Settings(plain) :
                LET o == config_options[OptionOf(OptionKeyAt(plain, j))]
                    b == Block(plain, j)
                    n == Len(_clean_paragraphs(o.description))
                    marks   == {i \in DOMAIN b : b[i] = "# DEPRECATED."}
                    texts   == {i \in DOMAIN b :
                                   b[i] = "# " \o Join(_clean_paragraphs(o.deprecation_text), "\n")}
                    notices == {i \in DOMAIN b :
                                   StartsWith(b[i], "# This option will be removed on or after ")}
                IN  IF o.deprecated
                    THEN /\ Cardinality(marks) = 1
                         /\ Cardinality(texts) = 1
                         /\ Cardinality(notices) = 1
                         /\ \A x \in marks, y \in texts, z \in notices :
                               /\ n < x /\ x < y /\ y < z /\ z < Len(b)
                               /\ b[z] = "# This option will be removed on or after "
                                         \o o.expiration_date \o "."
                    ELSE marks = {} /\ texts = {} /\ notices = {}

C4_Witness ==
    /\ Returned
    /\ \E k \in DOMAIN config_options :
          ShouldEmit(config_options[k]) /\ config_options[k].deprecated
    /\ \E k \in DOMAIN config_options :
          ShouldEmit(config_options[k]) /\ ~config_options[k].deprecated

\* the names of the shown options of a section, in the order of config_options
ShownNames(section) ==
    LET shown == SelectSeq(config_options,
                           LAMBDA o : o.section = section /\ ShouldEmit(o))
    IN  [i \in DOMAIN shown |-> Split(shown[i].key, ".")[2]]

\* the headers and the setting keys expected, section by section
RECURSIVE ExpectedOutline(_)
ExpectedOutline(j) ==
    IF j > Len(section_descriptions) THEN <<>>
    ELSE (IF section_descriptions[j] = "_test" THEN <<>>
          ELSE <<"[" \o section_descriptions[j] \o "]">>
               \o ShownNames(section_descriptions[j]))
         \o ExpectedOutline(j + 1)

\* C5: the returned list starts with the fixed header comment; then comes, for each
\* section but "_test" in the order of section_descriptions, one empty line, "[section]"
\* and one empty line (also for a section without shown options), followed by the lines
\* of its shown options in the order of config_options, each option's lines ending with
\* its setting line before the next header.
C5_Order ==
    Returned =>
        LET plain == Plain(ret)
            marks == SortedSeq(Headers(plain) \cup Settings(plain))
            outline == [k \in DOMAIN marks |->
                           IF IsHeaderLine(plain[marks[k]]) THEN plain[marks[k]]
                           ELSE SettingKey(plain[marks[k]])]
        IN  /\ plain[1] = "# Below are all the sections and options you can have in ~/.streamlit/config.toml."
            /\ outline = ExpectedOutline(1)
            /\ \A i \in Headers(plain) :
                  /\ 1 < i /\ i < Len(plain)
                  /\ plain[i - 1] = "" /\ plain[i + 1] = ""
            /\ Cardinality({i \in DOMAIN plain : plain[i] = ""})
                  = 2 * Cardinality(Headers(plain))
            /\ \A i \in 2..Len(plain) :
                  IsCommentLine(plain[i]) =>
                      /\ i < Len(plain)
                      /\ IsCommentLine(plain[i + 1]) \/ IsSettingLine(plain[i + 1])

C5_Witness ==
    /\ Returned
    /\ \E a, b \in DOMAIN config_options :
          /\ a < b
          /\ ShouldEmit(config_options[a]) /\ ShouldEmit(config_options[b])
          /\ config_options[a].section = config_options[b].section
    /\ \E j \in DOMAIN section_descriptions :
          /\ section_descriptions[j] # "_test"
          /\ ShownNames(section_descriptions[j]) = <<>>

\* the setting line of option o, as toml writes its current value
SettingText(o) == Split(o.key, ".")[2] \o " = " \o dump_value(o.value) \o "\n"

\* C6 as stated: every shown option has its description lines, then a "# Default: ..."
\* line, and its setting line last, whatever its default value.
C6_Original ==
    Returned =>
        LET plain == Plain(ret)
        IN  \A j \in Settings(plain) :
                LET o == config_options[OptionOf(OptionKeyAt(plain, j))]
                    b == Block(plain, j)
                    paragraphs == _clean_paragraphs(o.description)
                    n == Len(paragraphs)
                IN  /\ n + 2 <= Len(b)
                    /\ \A i \in 1..n : b[i] = "# " \o paragraphs[i]
                    /\ StartsWith(b[n + 1], "# Default: ")
                    /\ IsSettingLine(b[Len(b)])

\* C6, amended: every shown option has its description lines first and its setting line,
\* giving its current value, last; the "# Default: ..." line follows the description iff
\* the default value is not None, and then gives the default value.
C6_DefaultLine ==
    Returned =>
        LET plain == Plain(ret)
        IN  \A j \in Settings(plain) :
                LET o == config_options[OptionOf(OptionKeyAt(plain, j))]
                    b == Block(plain, j)
                    paragraphs == _clean_paragraphs(o.description)
                    n == Len(paragraphs)
                    defaults == {i \in DOMAIN b : StartsWith(b[i], "# Default: ")}
                IN  /\ n >= 1 /\ n + 1 <= Len(b)
                    /\ \A i \in 1..n : b[i] = "# " \o paragraphs[i]
                    /\ IF IsNone(o.default_val) THEN defaults = {}
                       ELSE /\ defaults = {n + 1}
                            /\ b[n + 1] = "# Default: " \o dump_value(o.default_val)
                    /\ b[Len(b)] \in
                          IF IsNone(o.value) THEN {"#" \o Split(o.key, ".")[2] \o " =\n"}
                          ELSE {SettingText(o), "#" \o SettingText(o)}

C6_Witness ==
    /\ Returned
    /\ \E k \in DOMAIN config_options :
          ShouldEmit(config_options[k]) /\ IsNone(config_options[k].default_val)
    /\ \E k \in DOMAIN config_options :
          ShouldEmit(config_options[k]) /\ ~IsNone(config_options[k].default_val)

\* C8 as stated: a shown option has the comment "# The value below was set in ..." iff
\* where_defined is not the default definition, and its setting line is active (no
\* leading "#") iff it is manually set in that sense.
C8_Original ==
    Returned =>
        LET plain == Plain(ret)
        IN  \A j \in Settings(plain) :
                LET o == config_options[OptionOf(OptionKeyAt(plain, j))]
                    b == Block(plain, j)
                    manually == o.where_defined # DEFAULT_DEFINITION
                IN  /\ (\E i \in DOMAIN b :
                           b[i] = "# The value below was set in " \o o.where_defined)
                       <=> manually
                    /\ ~StartsWith(plain[j], "#") <=> manually

\* C8, amended: the comment is present iff where_defined is not the default definition;
\* the setting line is the active assignment iff the option is manually set and its value
\* is not None; a manually set option whose value is None is emitted as the commented-out
\* "#key =", and an option at its default definition is always commented out.
C8_ManuallySet ==
    Returned =>
        LET plain == Plain(ret)
        IN  \A j \in Settings(plain) :
                LET o == config_options[OptionOf(OptionKeyAt(plain, j))]
                    b == Block(plain, j)
                    manually == o.where_defined # DEFAULT_DEFINITION
                    comments == {i \in DOMAIN b :
                                    StartsWith(b[i], "# The value below was set in ")}
                IN  /\ IF manually
                       THEN /\ comments = {Len(b) - 1}
                            /\ b[Len(b) - 1]
                                 = "# The value below was set in " \o o.where_defined
                       ELSE comments = {}
                    /\ plain[j] =
                         IF IsNone(o.value) THEN "#" \o Split(o.key, ".")[2] \o " =\n"
                         ELSE IF manually THEN SettingText(o)
                         ELSE "#" \o SettingText(o)

C8_Witness ==
    /\ Returned
    /\ \E k \in DOMAIN config_options :
          /\ ShouldEmit(config_options[k])
          /\ config_options[k].where_defined # DEFAULT_DEFINITION
          /\ IsNone(config_options[k].value)
    /\ \E k \in DOMAIN config_options :
          /\ ShouldEmit(config_options[k])
          /\ config_options[k].where_defined = DEFAULT_DEFINITION

\* C9: for the same arguments the list returned in terminal mode has the length of the
\* list returned in file mode and, its styling removed, the same lines; the lines
\* returned in file mode carry no styling.
C9_ModesAgree ==
    Returned =>
        IF call.save_to_file
        THEN \A i \in DOMAIN ret : \A k \in 1..Len(ret[i]) : Char(ret[i], k) # ESC
        ELSE LET file == generate_config_out(section_descriptions, config_options, TRUE)
             IN  /\ Len(ret) = Len(file)
                 /\ \A i \in DOMAIN ret : Unstyle(ret[i]) = file[i]

C9_Witness ==
    /\ Returned /\ ~call.save_to_file
    /\ \E i \in DOMAIN ret : Unstyle(ret[i]) # ret[i]
    /\ \E k \in DOMAIN config_options :
          ShouldEmit(config_options[k]) /\ config_options[k].deprecated

----------------------------------------------------------------------------
(* server_option_changed *)

MaxChanged == 2

\* new_options[opt_name]: the item of that name, or a KeyError
HasKey(options, name) == \E k \in DOMAIN options : options[k].key = name
Lookup(options, name) == options[CHOOSE k \in DOMAIN options : options[k].key = name]

\* for opt_name in old_options.keys(), from item k on: what the call returns or raises
RECURSIVE changed_loop(_, _, _)
changed_loop(old, new, k) ==
    IF k > Len(old) THEN "False"
    ELSE IF ~StartsWith(old[k].key, "server") THEN changed_loop(old, new, k + 1)
    ELSE IF ~HasKey(new, old[k].key) THEN "KeyError"
    ELSE IF old[k].value # Lookup(new, old[k].key).value THEN "True"
    ELSE changed_loop(old, new, k + 1)

server_option_changed(old, new) == changed_loop(old, new, 1)

\* the option names of the mappings, and the values each can have
ChangedNames == {"server.port", "server.headless", "browser.serverPort"}

ChangedValues(name) ==
    IF name = "server.headless" THEN {BoolV(TRUE), BoolV(FALSE)}
    ELSE {IntV(8501), IntV(80)}

\* the mappings of at most MaxChanged options, in any order, with any of their values
Mappings ==
    UNION {{m \in [DOMAIN q -> [key : ChangedNames,
                                value : {BoolV(TRUE), BoolV(FALSE), IntV(8501), IntV(80)}]] :
                \A i \in DOMAIN q : /\ m[i].key = q[i]
                                    /\ m[i].value \in ChangedValues(q[i])}
             : q \in SeqsNoRepeat(ChangedNames, MaxChanged)}

ChangedInit ==
    /\ old_options \in Mappings
    /\ new_options \in Mappings
    /\ result = [fwd |-> "none", rev |-> "none"]

\* server_option_changed(old_options, new_options)
ServerOptionChanged ==
    /\ result.fwd = "none"
    /\ result' = [result EXCEPT !.fwd = server_option_changed(old_options, new_options)]
    /\ UNCHANGED <<old_options, new_options>>

\* server_option_changed(new_options, old_options)
ServerOptionChangedSwapped ==
    /\ result.rev = "none"
    /\ result' = [result EXCEPT !.rev = server_option_changed(new_options, old_options)]
    /\ UNCHANGED <<old_options, new_options>>

InitChanged == ChangedInit /\ ConfigIdle /\ RadioIdle

NextChanged ==
    \/ ServerOptionChanged /\ UNCHANGED <<config_vars, radio_vars>>
    \/ ServerOptionChangedSwapped /\ UNCHANGED <<config_vars, radio_vars>>

SpecChanged == InitChanged /\ [][NextChanged]_vars

Keys(options) == {options[k].key : k \in DOMAIN options}

\* an option of the server section has one value in old_options and another in new_options
ServerValueDiffers ==
    \E name \in Keys(old_options) \cap Keys(new_options) :
        /\ Split(name, ".")[1] = "server"
        /\ Lookup(old_options, name).value # Lookup(new_options, name).value

\* C1: server_option_changed(old_options, new_options) returns True if an option of the
\* server section differs in value between the two mappings, and False otherwise, for
\* every pair of mappings.
C1_Original ==
    result.fwd # "none" =>
        result.fwd = IF ServerValueDiffers THEN "True" ELSE "False"

\* C10: for every pair of mappings, also of different option names, the call returns a
\* boolean, the same one with the arguments swapped, and False for equal arguments.
C10_Original ==
    /\ result.fwd # "none" =>
          /\ result.fwd \in {"True", "False"}
          /\ old_options = new_options => result.fwd = "False"
    /\ (result.fwd # "none" /\ result.rev # "none") => result.fwd = result.rev

----------------------------------------------------------------------------
(* The script st_radio.py, run and rerun by the framework in one session *)

MaxRuns == 8

Absent == "<absent>"
Unwritten == "<unwritten>"

\* options = ("female", "male")
options == <<"female", "male">>

\* the index arguments of the radios 1, 2 and 5 (Python counts from 0)
DefaultWidgets == [r1 |-> 1 + 1, r2 |-> 0 + 1, r5 |-> 1 + 1]

\* on_change without its assignment
on_change_noop(state) == state

\* def on_change(): st.session_state.radio_changed = True
on_change(state) == [state EXCEPT !.radio_changed = "True"]

\* st.radio(..., key="radio5"): the framework keeps the widget's value under the key
register_radio5(state, w) == [state EXCEPT !.radio5 = options[w.r5]]

\* the values the script writes in one run
script_writes(state, w, streamlit) ==
    [value1 |-> options[w.r1],
     value2 |-> options[w.r2],
     value3 |-> "None",
     value4 |-> options[1],
     value5 |-> IF streamlit THEN state.radio5 ELSE Unwritten,
     radio_changed |-> IF ~streamlit THEN Unwritten
                       ELSE IF state.radio_changed # Absent THEN "True" ELSE "False"]

RadioInit ==
    /\ is_running_with_streamlit \in BOOLEAN
    /\ session_state = [radio5 |-> Absent, radio_changed |-> Absent]
    /\ widgets = DefaultWidgets
    /\ written = [value1 |-> Unwritten, value2 |-> Unwritten, value3 |-> Unwritten,
                  value4 |-> Unwritten, value5 |-> Unwritten, radio_changed |-> Unwritten]
    /\ runs = 0
    /\ fired = 0

\* the script runs from its first to its last line: the first run, or a rerun
RunScript ==
    /\ runs < MaxRuns
    /\ LET state == IF is_running_with_streamlit
                    THEN register_radio5(session_state, widgets)
                    ELSE session_state
       IN  /\ session_state' = state
           /\ written' = script_writes(state, widgets, is_running_with_streamlit)
    /\ runs' = runs + 1
    /\ UNCHANGED <<is_running_with_streamlit, widgets, fired>>

\* the user selects option idx of radio r: the framework stores the new value, calls the
\* widget's on_change callback if it has one, and reruns the script
SelectRadio(r, idx) ==
    /\ is_running_with_streamlit
    /\ runs >= 1 /\ runs < MaxRuns
    /\ widgets[r] # idx
    /\ LET w == [widgets EXCEPT ![r] = idx]
           state == IF r = "r5" THEN on_change(register_radio5(session_state, w))
                    ELSE register_radio5(session_state, w)
       IN  /\ widgets' = w
           /\ session_state' = state
           /\ written' = script_writes(state, w, TRUE)
    /\ fired' = IF r = "r5" THEN fired + 1 ELSE fired
    /\ runs' = runs + 1
    /\ UNCHANGED is_running_with_streamlit

InitRadio == RadioInit /\ ConfigIdle /\ ChangedIdle

NextRadio ==
    \/ RunScript /\ UNCHANGED <<config_vars, changed_vars>>
    \/ \E r \in {"r1", "r2", "r5"}, idx \in DOMAIN options :
          SelectRadio(r, idx) /\ UNCHANGED <<config_vars, changed_vars>>

SpecRadio == InitRadio /\ [][NextRadio]_vars

\* after every run of a session, what the script wrote agrees with the session state
C7_Written ==
    (is_running_with_streamlit /\ runs >= 1) =>
        /\ written.value5 = session_state.radio5
        /\ written.value5 \in Range(options)
        /\ written.radio_changed \in {"True", "False"}
        /\ written.radio_changed = "True" <=> fired >= 1
        /\ runs = 1 => (written.value5 = "male" /\ written.radio_changed = "False")

\* C7: after any runs and selections of a session, the written "value 5" is the session
\* state's value of "radio5" ("male" on the first run), and "radio changed" is written as
\* True iff the on_change callback of radio 5 was called at least once: False on the first
\* run, and True on every rerun after it was True.
C7_RadioChanged ==
    /\ []C7_Written
    /\ [][written.radio_changed = "True" => written'.radio_changed = "True"]_vars

C7_Witness ==
    /\ is_running_with_streamlit
    /\ runs >= 3
    /\ fired >= 1
    /\ written.radio_changed = "True"
    /\ written.value5 = "female"
    /\ widgets.r1 # DefaultWidgets.r1

====
